------------------------------ MODULE Spec2Model ------------------------------
(***************************************************************************)
(* A model of qpga/model.py: the phase-diagonal builder, the single-qubit  *)
(* layer, the controlled-phase (entangling) layer and the QPGA circuit.    *)
(*                                                                         *)
(* Arithmetic is exact.  A complex number is a pair <<re, im>> of          *)
(* integers.  Phase angles are integers counting quarter turns (pi/2), so  *)
(* that cos and sin take the values -1, 0, 1 and every product of phases   *)
(* is a Gaussian integer.  A vector is a sequence of complex numbers, a    *)
(* matrix a sequence of rows.  A batch is modelled by one of its rows.     *)
(***************************************************************************)
EXTENDS Integers, Sequences, FiniteSets, TLC

VARIABLES
    mode,       \* "eager" or "graph": how TensorFlow executes the code
    qpga,       \* the QPGA object, None before QPGA.__init__ has run
    layers,     \* the heap of layer objects: layer id -> layer state
    seq_model,  \* the Sequential model returned by as_sequential, or None
    last,       \* the last operation: its input and what it returned or raised
    pf          \* harness of the pure functions: arguments and result

vars == <<mode, qpga, layers, seq_model, last, pf>>

None == <<>>

-----------------------------------------------------------------------------
(* Bounds of the exploration.                                              *)

MaxPhaseQubits == 2
MaxBlockQubits == 16
MaxQubits == 2
MaxDepth == 2
PhaseAngles == {-3, -1, 0, 2, 5}

-----------------------------------------------------------------------------
(* Complex arithmetic and dense linear algebra.                            *)

CZero == <<0, 0>>
COne == <<1, 0>>
CAdd(a, b) == <<a[1] + b[1], a[2] + b[2]>>
CMul(a, b) == <<a[1] * b[1] - a[2] * b[2], a[1] * b[2] + a[2] * b[1]>>

\* The sequence <<F(1), ..., F(n)>> and the matrix of the entries F(i, j)
RECURSIVE Tabulate(_, _)
Tabulate(F(_), n) == IF n <= 0 THEN <<>> ELSE Append(Tabulate(F, n - 1), F(n))

Matrix(F(_, _), r, c) == Tabulate(LAMBDA i : Tabulate(LAMBDA j : F(i, j), c), r)

RECURSIVE Pow2(_)
Pow2(n) == IF n <= 0 THEN 1 ELSE 2 * Pow2(n - 1)

\* tf.cos and tf.sin of an angle of k quarter turns
tf_cos(k) == CASE k % 4 = 0 -> 1 [] k % 4 = 1 -> 0 [] k % 4 = 2 -> -1 [] OTHER -> 0
tf_sin(k) == CASE k % 4 = 0 -> 0 [] k % 4 = 1 -> 1 [] k % 4 = 2 -> 0 [] OTHER -> -1
tf_complex(re, im) == <<re, im>>

\* tf.linalg.tensor_diag of a vector: the square matrix with it on the diagonal
tensor_diag(U) == Matrix(LAMBDA i, j : IF i = j THEN U[i] ELSE CZero, Len(U), Len(U))

\* The Kronecker product of two square matrices
Kron(A, B) ==
    LET rb == Len(B)
        d == Len(A) * rb
    IN  Matrix(LAMBDA i, j :
                   CMul(A[((i - 1) \div rb) + 1][((j - 1) \div rb) + 1],
                        B[((i - 1) % rb) + 1][((j - 1) % rb) + 1]),
               d, d)

\* tf.linalg.LinearOperatorKronecker(ops).to_dense(): left-to-right product
RECURSIVE LinearOperatorKronecker(_)
LinearOperatorKronecker(ops) ==
    IF Len(ops) = 1 THEN ops[1]
    ELSE Kron(LinearOperatorKronecker(SubSeq(ops, 1, Len(ops) - 1)), ops[Len(ops)])

-----------------------------------------------------------------------------
(* phase_shifts_to_tensor_product_space                                    *)

\* A slip in the transposition: the two phases of a qubit change places.
phase_shifts_swapped(phi_0, phi_1) ==
    LET phi_0_complex == Tabulate(LAMBDA k : tf_complex(tf_cos(phi_0[k]), tf_sin(phi_0[k])), Len(phi_0))
        phi_1_complex == Tabulate(LAMBDA k : tf_complex(tf_cos(phi_1[k]), tf_sin(phi_1[k])), Len(phi_1))
        single_qubit_ops ==
            Tabulate(LAMBDA k : tensor_diag(<<phi_1_complex[k], phi_0_complex[k]>>), Len(phi_0))
    IN  LinearOperatorKronecker(single_qubit_ops)

phase_shifts_to_tensor_product_space(phi_0, phi_1) ==
    LET phi_0_complex == Tabulate(LAMBDA k : tf_complex(tf_cos(phi_0[k]), tf_sin(phi_0[k])), Len(phi_0))
        phi_1_complex == Tabulate(LAMBDA k : tf_complex(tf_cos(phi_1[k]), tf_sin(phi_1[k])), Len(phi_1))
        \* tf.transpose([phi_0_complex, phi_1_complex]) has one row per qubit
        single_qubit_ops ==
            Tabulate(LAMBDA k : tensor_diag(<<phi_0_complex[k], phi_1_complex[k]>>), Len(phi_0))
    IN  LinearOperatorKronecker(single_qubit_ops)

-----------------------------------------------------------------------------
(* The specification of the phase-diagonal builder: the arguments are      *)
(* drawn in Init, and the one action applies the function.                 *)

PhaseVectors(n) == [1..n -> PhaseAngles]

InitPhase ==
    /\ mode = "eager"
    /\ qpga = None
    /\ layers = <<>>
    /\ seq_model = None
    /\ last = [op |-> "none"]
    /\ \E n \in 1..MaxPhaseQubits : \E u \in PhaseVectors(n), v \in PhaseVectors(n) :
           pf = [fn |-> "phase_shifts", phi_0 |-> u, phi_1 |-> v, done |-> FALSE, out |-> None]

ApplyPhaseShifts ==
    /\ pf.fn = "phase_shifts"
    /\ ~pf.done
    /\ pf' = [pf EXCEPT !.done = TRUE,
                        !.out = phase_shifts_to_tensor_product_space(pf.phi_0, pf.phi_1)]
    /\ UNCHANGED <<mode, qpga, layers, seq_model, last>>

NextPhase == ApplyPhaseShifts

SpecPhase == InitPhase /\ [][NextPhase]_vars

\* Bit k of the basis index j (both from 0) of n qubits, qubit 0 the most significant
BitOf(j, k, n) == (j \div Pow2(n - 1 - k)) % 2

RECURSIVE AngleSum(_, _, _, _)
AngleSum(u, v, j, k) ==
    IF k = 0 THEN 0
    ELSE AngleSum(u, v, j, k - 1)
         + (IF BitOf(j, k - 1, Len(u)) = 0 THEN u[k] ELSE v[k])

\* C9: the builder returns a 2^n x 2^n matrix, zero off the diagonal, whose
\* diagonal entry at basis index j is the unit phase of angle
\* sum_k (u_k if bit k of j is 0, else v_k), qubit 0 the most significant bit.
PhaseDiagonalEntries ==
    (pf.fn = "phase_shifts" /\ pf.done) =>
        LET n == Len(pf.phi_0)
            d == Pow2(n)
        IN  /\ Len(pf.out) = d
            /\ \A i \in 1..d :
                 /\ Len(pf.out[i]) = d
                 /\ \A j \in 1..d :
                      pf.out[i][j] =
                          IF i = j
                          THEN <<tf_cos(AngleSum(pf.phi_0, pf.phi_1, j - 1, n)),
                                 tf_sin(AngleSum(pf.phi_0, pf.phi_1, j - 1, n))>>
                          ELSE CZero

PhaseDiagonalWitness ==
    /\ pf.fn = "phase_shifts" /\ pf.done
    /\ Len(pf.phi_0) = 2
    /\ pf.phi_0 = <<-3, 5>> /\ pf.phi_1 = <<2, -1>>
    /\ pf.out[3][3] = <<0, -1>>

-----------------------------------------------------------------------------
(* CPhaseLayer: the ordered block list of build.  A block is named by the  *)
(* gate constant it is: "IDENTITY" (one qubit), "CPHASE" or "CPHASE_MOD"   *)
(* (two qubits).                                                           *)

get_cphase_gate(use_standard_cphase) ==
    IF use_standard_cphase THEN "CPHASE" ELSE "CPHASE_MOD"

\* range(num) of the for loops: num appended gates, none when num <= 0
Repeat(x, num) == Tabulate(LAMBDA k : x, num)

\* A slip in the odd layer: the number of gates of the even layer.
CPhaseOps_evencount(num_qubits, parity, use_standard_cphase) ==
    LET gate == get_cphase_gate(use_standard_cphase)
        num_cphase == num_qubits \div 2
    IN  IF parity = 0
        THEN Repeat(gate, num_cphase)
             \o (IF 2 * num_cphase < num_qubits THEN <<"IDENTITY">> ELSE <<>>)
        ELSE <<"IDENTITY">> \o Repeat(gate, num_cphase)
             \o (IF 2 * num_cphase + 1 < num_qubits THEN <<"IDENTITY">> ELSE <<>>)

\* A slip in the odd layer: the trailing identity is left out.
CPhaseOps_notrailing(num_qubits, parity, use_standard_cphase) ==
    LET gate == get_cphase_gate(use_standard_cphase)
    IN  IF parity = 0
        THEN LET num_cphase == num_qubits \div 2
             IN  Repeat(gate, num_cphase)
                 \o (IF 2 * num_cphase < num_qubits THEN <<"IDENTITY">> ELSE <<>>)
        ELSE LET num_cphase == (num_qubits - 1) \div 2
             IN  <<"IDENTITY">> \o Repeat(gate, num_cphase)

CPhaseOps(num_qubits, parity, use_standard_cphase) ==
    LET gate == get_cphase_gate(use_standard_cphase)
    IN  IF parity = 0
        THEN LET num_cphase == num_qubits \div 2
             IN  Repeat(gate, num_cphase)
                 \o (IF 2 * num_cphase < num_qubits THEN <<"IDENTITY">> ELSE <<>>)
        ELSE LET num_cphase == (num_qubits - 1) \div 2
             IN  <<"IDENTITY">> \o Repeat(gate, num_cphase)
                 \o (IF 2 * num_cphase + 1 < num_qubits THEN <<"IDENTITY">> ELSE <<>>)

-----------------------------------------------------------------------------
(* The collaborators of model.py that are not part of it: the gate         *)
(* constants, the Kronecker composer and the complex bridge.  BS_MATRIX is *)
(* kept without its real factor 1/sqrt(2), which commutes with everything. *)

IDENTITY == << <<COne, CZero>>, <<CZero, COne>> >>
BS_MATRIX == << <<COne, <<0, 1>> >>, << <<0, 1>>, COne>> >>
CPHASE == tensor_diag(<<COne, COne, COne, <<-1, 0>> >>)
CPHASE_MOD == tensor_diag(<<COne, COne, <<-1, 0>>, <<-1, 0>> >>)

GateMatrix(name) ==
    CASE name = "IDENTITY" -> IDENTITY
      [] name = "CPHASE" -> CPHASE
      [] OTHER -> CPHASE_MOD

\* qpga.linalg.tensors: the Kronecker product of a list, left to right
RECURSIVE tensors(_)
tensors(ops) ==
    IF Len(ops) = 1 THEN ops[1]
    ELSE Kron(tensors(SubSeq(ops, 1, Len(ops) - 1)), ops[Len(ops)])

\* qpga.utils: real[2, d] -> complex[d] and back
k_to_tf_complex(x) == Tabulate(LAMBDA j : <<x[1][j], x[2][j]>>, Len(x[1]))
tf_to_k_complex(z) ==
    << Tabulate(LAMBDA j : z[j][1], Len(z)), Tabulate(LAMBDA j : z[j][2], Len(z)) >>

-----------------------------------------------------------------------------
(* keras.backend.dot on one row of the batch.  The product is defined when *)
(* the length of the row is the number of rows of the matrix; otherwise    *)
(* the call raises, which is the result None here.                         *)

RECURSIVE DotEntry(_, _, _, _)
DotEntry(x, M, j, m) ==
    IF m = 0 THEN CZero ELSE CAdd(DotEntry(x, M, j, m - 1), CMul(x[m], M[m][j]))

dot(x, M) ==
    IF Len(x) # Len(M) THEN None
    ELSE Tabulate(LAMBDA j : DotEntry(x, M, j, Len(M)), Len(M[1]))

Min(a, b) == IF a <= b THEN a ELSE b

\* 2 ** num_qubits of Python, a fraction <<numerator, denominator>>
PyPow2(n) == IF n >= 0 THEN <<Pow2(n), 1>> ELSE <<1, Pow2(-n)>>

zeros_like(v) == Tabulate(LAMBDA k : 0, Len(v))

-----------------------------------------------------------------------------
(* SingleQubitOperationLayer                                               *)

SingleQubitOperationLayer_init(num_qubits) ==
    [cls |-> "SingleQubitOperationLayer",
     num_qubits |-> num_qubits,
     output_dim |-> PyPow2(num_qubits),
     built |-> FALSE,
     alphas |-> None, betas |-> None, thetas |-> None, phis |-> None,
     input_shifts |-> None, theta_shifts |-> None, phi_shifts |-> None,
     bs_matrix |-> None]

\* The tensor build stores for a phase-diagonal matrix.  Executing eagerly
\* it is the value computed from the weights as they are during build; in a
\* graph it is the operation, evaluated when the graph runs.
PhaseTensor(w, phi_0, phi_1) ==
    IF mode = "eager"
    THEN [kind |-> "EagerTensor",
          val |-> phase_shifts_to_tensor_product_space(
                      w[phi_0], IF phi_1 = "zeros_like" THEN zeros_like(w[phi_0]) ELSE w[phi_1])]
    ELSE [kind |-> "Tensor", phi_0 |-> phi_0, phi_1 |-> phi_1]

\* The value of a stored tensor when a forward pass reads it
Evaluate(self, t) ==
    IF t.kind = "EagerTensor" THEN t.val
    ELSE phase_shifts_to_tensor_product_space(
             self[t.phi_0],
             IF t.phi_1 = "zeros_like" THEN zeros_like(self[t.phi_0]) ELSE self[t.phi_1])

\* build(input_shape); w is what the random initializer draws for the weights
SingleQubitOperationLayer_build(self, input_shape, w) ==
    LET input_dim == input_shape[Len(input_shape)]
    IN  IF input_dim # self.output_dim
        THEN [raised |-> "AssertionError", self |-> self]
        ELSE IF self.num_qubits < 1
        THEN [raised |-> "ValueError", self |-> self]
        ELSE [raised |-> "none",
              self |-> [self EXCEPT
                  !.alphas = w.alphas, !.betas = w.betas,
                  !.thetas = w.thetas, !.phis = w.phis,
                  !.input_shifts = PhaseTensor(w, "alphas", "betas"),
                  !.theta_shifts = PhaseTensor(w, "thetas", "zeros_like"),
                  !.phi_shifts = PhaseTensor(w, "phis", "zeros_like"),
                  !.bs_matrix = tensors(Repeat(BS_MATRIX, self.num_qubits)),
                  !.built = TRUE]]

\* The matrices a forward pass multiplies by, in the order of call
SingleQubitOperationLayer_operators(self) ==
    << Evaluate(self, self.input_shifts), self.bs_matrix,
       Evaluate(self, self.theta_shifts), self.bs_matrix,
       Evaluate(self, self.phi_shifts) >>

RECURSIVE DotAll(_, _, _)
DotAll(x, Ms, m) == IF m = 0 THEN x ELSE dot(DotAll(x, Ms, m - 1), Ms[m])

\* What call returns: the product, or the raise of a dot on unequal lengths
Returned(out) == [raised |-> IF out = None THEN "InvalidArgumentError" ELSE "none", out |-> out]

SingleQubitOperationLayer_call(self, x) ==
    Returned(DotAll(x, SingleQubitOperationLayer_operators(self), 5))

-----------------------------------------------------------------------------
(* CPhaseLayer                                                             *)

CPhaseLayer_init(num_qubits, parity, use_standard_cphase) ==
    [cls |-> "CPhaseLayer",
     num_qubits |-> num_qubits,
     parity |-> parity,
     use_standard_cphase |-> use_standard_cphase,
     output_dim |-> PyPow2(num_qubits),
     built |-> FALSE,
     transfer_matrix |-> None]

\* tensors(ops) of a block list
TransferMatrix(ops) == tensors(Tabulate(LAMBDA m : GateMatrix(ops[m]), Len(ops)))

CPhaseLayer_build(self, input_shape) ==
    LET input_dim == input_shape[Len(input_shape)]
    IN  IF input_dim # self.output_dim
        THEN [raised |-> "AssertionError", self |-> self]
        ELSE IF self.num_qubits < 1
        THEN [raised |-> "ValueError", self |-> self]
        ELSE [raised |-> "none",
              self |-> [self EXCEPT
                  !.transfer_matrix = TransferMatrix(
                      CPhaseOps(self.num_qubits, self.parity, self.use_standard_cphase)),
                  !.built = TRUE]]

\* A product written without the check of the lengths: it stops at the
\* shorter of the row and the matrix.
CPhaseLayer_call_unchecked(self, x) ==
    [raised |-> "none",
     out |-> Tabulate(LAMBDA j : DotEntry(x, self.transfer_matrix, j,
                                          Min(Len(x), Len(self.transfer_matrix))),
                      Len(self.transfer_matrix[1]))]

CPhaseLayer_call(self, x) == Returned(dot(x, self.transfer_matrix))

-----------------------------------------------------------------------------
(* Layer.__call__ of Keras: build the layer on its first call, then call.  *)
(* A build that raises leaves the layer as it was, not built.              *)

Layer_build(self, input_shape, w) ==
    IF self.cls = "CPhaseLayer"
    THEN CPhaseLayer_build(self, input_shape)
    ELSE SingleQubitOperationLayer_build(self, input_shape, w)

Layer_forward(self, x) ==
    IF self.cls = "CPhaseLayer"
    THEN CPhaseLayer_call(self, x)
    ELSE SingleQubitOperationLayer_call(self, x)

\* call(x) on a layer that is built (b is what build returned)
Layer_call_built(b, x) ==
    IF b.raised # "none"
    THEN [raised |-> b.raised, out |-> None, self |-> b.self]
    ELSE Layer_forward(b.self, x) @@ [self |-> b.self]

Layer_call(self, x, w) ==
    Layer_call_built(IF self.built THEN [raised |-> "none", self |-> self]
                     ELSE Layer_build(self, <<1, <<Len(x), 1>> >>, w),
                     x)

-----------------------------------------------------------------------------
(* QPGA                                                                    *)

\* One iteration of the for loop: the two appends
AppendPair(p, cphase_layer, single_qubit_layer) ==
    [heap |-> p.heap \o <<cphase_layer, single_qubit_layer>>,
     cphase_layers |-> Append(p.cphase_layers, Len(p.heap) + 1),
     single_qubit_layers |-> Append(p.single_qubit_layers, Len(p.heap) + 2)]

\* A slip in the parity: the first entangling layer gets parity 1.
RECURSIVE QPGA_init_loop_oddfirst(_, _, _)
QPGA_init_loop_oddfirst(num_qubits, use_standard_cphase, i) ==
    IF i <= 0
    THEN [heap |-> <<SingleQubitOperationLayer_init(num_qubits)>>,
          cphase_layers |-> <<>>, single_qubit_layers |-> <<>>]
    ELSE AppendPair(QPGA_init_loop_oddfirst(num_qubits, use_standard_cphase, i - 1),
                    CPhaseLayer_init(num_qubits, i % 2, use_standard_cphase),
                    SingleQubitOperationLayer_init(num_qubits))

\* The layer objects and the two lists after the input layer is made and
\* the for loop has run its iterations 0 .. i-1.  A layer id is the place
\* of the object in the heap, the order in which the objects are made.
RECURSIVE QPGA_init_loop(_, _, _)
QPGA_init_loop(num_qubits, use_standard_cphase, i) ==
    IF i <= 0
    THEN [heap |-> <<SingleQubitOperationLayer_init(num_qubits)>>,
          cphase_layers |-> <<>>, single_qubit_layers |-> <<>>]
    ELSE AppendPair(QPGA_init_loop(num_qubits, use_standard_cphase, i - 1),
                    CPhaseLayer_init(num_qubits, (i - 1) % 2, use_standard_cphase),
                    SingleQubitOperationLayer_init(num_qubits))

\* QPGA.__init__: range(depth) runs depth iterations, none when depth <= 0
QPGA_attributes(num_qubits, depth, complex_inputs, complex_outputs, use_standard_cphase, made) ==
    [heap |-> made.heap,
     self |-> [num_qubits |-> num_qubits,
               input_dim |-> PyPow2(num_qubits),
               depth |-> depth,
               complex_inputs |-> complex_inputs,
               complex_outputs |-> complex_outputs,
               use_standard_cphase |-> use_standard_cphase,
               input_layer |-> 1,
               single_qubit_layers |-> made.single_qubit_layers,
               cphase_layers |-> made.cphase_layers]]

QPGA_init(num_qubits, depth, complex_inputs, complex_outputs, use_standard_cphase) ==
    QPGA_attributes(num_qubits, depth, complex_inputs, complex_outputs, use_standard_cphase,
                    QPGA_init_loop(num_qubits, use_standard_cphase, depth))

\* zip(self.cphase_layers, self.single_qubit_layers), flattened
ZipLayers(self) ==
    LET pairs == Min(Len(self.cphase_layers), Len(self.single_qubit_layers))
    IN  Tabulate(LAMBDA k : IF k % 2 = 1 THEN self.cphase_layers[(k + 1) \div 2]
                                         ELSE self.single_qubit_layers[k \div 2],
                 2 * pairs)

\* The weights drawn for a layer, None for a layer that draws none
DrawFor(ws, id) == IF id \in DOMAIN ws THEN ws[id] ELSE None

Step(name, id) == [step |-> name, layer |-> id]

\* x = layer(x) on the state p of a forward pass, r what the layer returned
Ran(p, id, r) ==
    [raised |-> r.raised, x |-> r.out,
     heap |-> [p.heap EXCEPT ![id] = r.self],
     trace |-> Append(p.trace, Step("layer", id))]

RunLayer(p, id, ws) ==
    IF p.raised # "none" THEN p
    ELSE Ran(p, id, Layer_call(p.heap[id], p.x, DrawFor(ws, id)))

\* x = layer(x) for the first k layers of ids, stopping at the first raise
RECURSIVE RunLayers(_, _, _, _, _)
RunLayers(heap, ids, x, ws, k) ==
    IF k = 0 THEN [raised |-> "none", x |-> x, heap |-> heap, trace |-> <<>>]
    ELSE RunLayer(RunLayers(heap, ids, x, ws, k - 1), ids[k], ws)

\* The layers in the order QPGA.call applies them
CallOrder(self) == <<self.input_layer>> \o ZipLayers(self)

\* The two ends of QPGA.call around the layers
ToComplex(self, inputs) == IF ~self.complex_inputs THEN k_to_tf_complex(inputs) ELSE inputs

FromComplex(self, run) ==
    [raised |-> run.raised,
     heap |-> run.heap,
     out |-> IF run.raised # "none" THEN None
             ELSE IF ~self.complex_outputs THEN tf_to_k_complex(run.x) ELSE run.x,
     trace |-> (IF ~self.complex_inputs THEN <<Step("k_to_tf_complex", 0)>> ELSE <<>>)
               \o run.trace
               \o (IF run.raised = "none" /\ ~self.complex_outputs
                   THEN <<Step("tf_to_k_complex", 0)>> ELSE <<>>)]

\* A slip in the loop body: the single-qubit layer of a pair runs first.
QPGA_call_swapped(self, heap, inputs, ws) ==
    FromComplex(self,
        RunLayers(heap,
                  <<self.input_layer>>
                  \o Tabulate(LAMBDA k : IF k % 2 = 1
                                         THEN self.single_qubit_layers[(k + 1) \div 2]
                                         ELSE self.cphase_layers[k \div 2],
                              2 * Min(Len(self.cphase_layers),
                                      Len(self.single_qubit_layers))),
                  ToComplex(self, inputs), ws, Len(heap)))

\* QPGA.call; ws is what the initializer draws for the layers it builds
QPGA_call(self, heap, inputs, ws) ==
    FromComplex(self, RunLayers(heap, CallOrder(self), ToComplex(self, inputs), ws,
                                1 + 2 * Min(Len(self.cphase_layers),
                                            Len(self.single_qubit_layers))))

-----------------------------------------------------------------------------
(* as_sequential and the Sequential model of Keras it returns.  A stage of *)
(* the model is an Input, a Lambda of one of the two conversions, or one   *)
(* of the layer objects of the circuit.  Sequential.add calls the layer on *)
(* the symbolic output so far, which builds a layer not yet built.         *)

Stage(op, fn, id, shape) == [op |-> op, fn |-> fn, layer |-> id, shape |-> shape]

\* model.add(layer) on the state p of the model being made
Added(p, id, b) ==
    [raised |-> b.raised,
     heap |-> IF b.raised = "none" THEN [p.heap EXCEPT ![id] = b.self] ELSE p.heap]

AddLayer(p, id, input_dim, ws) ==
    IF p.raised # "none" \/ p.heap[id].built THEN p
    ELSE Added(p, id, Layer_build(p.heap[id], <<0, input_dim>>, DrawFor(ws, id)))

\* model.add of the first k layers of ids
RECURSIVE Sequential_add(_, _, _, _, _)
Sequential_add(heap, ids, input_dim, ws, k) ==
    IF k = 0 THEN [raised |-> "none", heap |-> heap]
    ELSE AddLayer(Sequential_add(heap, ids, input_dim, ws, k - 1), ids[k], input_dim, ws)

\* The stages before the layers, the stages of the layers, the last stage
InputStages(self) ==
    IF ~self.complex_inputs
    THEN << Stage("Input", "float64", 0, <<<<2, 1>>, self.input_dim>>),
            Stage("Lambda", "k_to_tf_complex", 0, <<self.input_dim>>) >>
    ELSE << Stage("Input", "complex128", 0, <<self.input_dim>>) >>

LayerStages(ids) == Tabulate(LAMBDA k : Stage("Layer", "call", ids[k], <<>>), Len(ids))

OutputStages(self) ==
    IF ~self.complex_outputs
    THEN << Stage("Lambda", "tf_to_k_complex", 0, <<>>) >> ELSE <<>>

\* What as_sequential returns, added being the layers after model.add
Sequential(self, stages, added) ==
    [raised |-> added.raised,
     heap |-> added.heap,
     model |-> IF added.raised # "none" THEN None
               ELSE [num_qubits |-> self.num_qubits,
                     complex_inputs |-> self.complex_inputs,
                     complex_outputs |-> self.complex_outputs,
                     stages |-> stages]]

\* A slip in the last condition: the output conversion is added when
\* complex_outputs is set.
QPGA_as_sequential_flipped(self, heap, ws) ==
    Sequential(self,
               InputStages(self) \o LayerStages(CallOrder(self))
               \o (IF self.complex_outputs
                   THEN << Stage("Lambda", "tf_to_k_complex", 0, <<>>) >> ELSE <<>>),
               Sequential_add(heap, CallOrder(self), self.input_dim, ws, Len(heap)))

QPGA_as_sequential(self, heap, ws) ==
    Sequential(self,
               InputStages(self) \o LayerStages(CallOrder(self)) \o OutputStages(self),
               Sequential_add(heap, CallOrder(self), self.input_dim, ws,
                              1 + 2 * Min(Len(self.cphase_layers),
                                          Len(self.single_qubit_layers))))

\* One stage of Sequential.call on the output p of the stages before it
RunStage(p, st, heap) ==
    IF p.raised # "none" \/ st.op = "Input" THEN p
    ELSE IF st.op = "Lambda"
    THEN [raised |-> "none",
          out |-> IF st.fn = "k_to_tf_complex" THEN k_to_tf_complex(p.out)
                  ELSE tf_to_k_complex(p.out)]
    ELSE Layer_forward(heap[st.layer], p.out)

\* Sequential.call: the stages in order, each on the output of the one
\* before; every layer of the model is built
RECURSIVE Sequential_call(_, _, _, _)
Sequential_call(model, heap, x, k) ==
    IF k = 0 THEN [raised |-> "none", out |-> x]
    ELSE RunStage(Sequential_call(model, heap, x, k - 1), model.stages[k], heap)

-----------------------------------------------------------------------------
(* Sampled inputs: what the random initializer may draw, what the          *)
(* optimizer may assign, and the rows fed to a forward pass.               *)

SampleVectors(n) == {Tabulate(LAMBDA k : 0, n), Tabulate(LAMBDA k : k % 4, n)}

WeightChoices(n) ==
    [alphas : SampleVectors(n), betas : SampleVectors(n),
     thetas : SampleVectors(n), phis : SampleVectors(n)]

InitialWeights(n) ==
    {w \in WeightChoices(n) : w.alphas # w.betas /\ w.thetas = w.alphas /\ w.phis = w.betas}

\* The initializer draws weights only for a single-qubit layer not yet built
DrawnWeights(self) ==
    IF self.cls = "SingleQubitOperationLayer" /\ ~self.built /\ self.num_qubits >= 1
    THEN InitialWeights(self.num_qubits)
    ELSE {None}

BasisRow(len) == Tabulate(LAMBDA j : IF j = 1 THEN COne ELSE CZero, len)
MixedRow(len) == Tabulate(LAMBDA j : <<j, 1 - j>>, len)

\* Rows of the right length 2^n, and rows one entry longer or half as long
GoodRows(n) == {BasisRow(Pow2(n)), MixedRow(Pow2(n))}
BadRows(n) == {MixedRow(Pow2(n) + 1), MixedRow(Pow2(n) \div 2)}

-----------------------------------------------------------------------------
(* The specification of the two layer classes on their own: one layer of   *)
(* each class, called directly, and an optimizer that assigns the weights  *)
(* of the single-qubit layer between forward passes.                       *)

InitLayer ==
    /\ mode \in {"eager", "graph"}
    /\ qpga = None
    /\ \E n \in 1..MaxQubits, parity \in {0, 1} :
           layers = << SingleQubitOperationLayer_init(n), CPhaseLayer_init(n, parity, FALSE) >>
    /\ seq_model = None
    /\ last = [op |-> "none"]
    /\ pf = None

\* layer(x), for a layer object of either class
LayerCalled(id, x, r) ==
    /\ layers' = [layers EXCEPT ![id] = r.self]
    /\ last' = [op |-> "layer_call", layer |-> id, x |-> x,
                raised |-> r.raised, out |-> r.out,
                operators |-> IF r.raised = "none" /\ r.self.cls = "SingleQubitOperationLayer"
                              THEN SingleQubitOperationLayer_operators(r.self)
                              ELSE None]
    /\ UNCHANGED <<mode, qpga, seq_model, pf>>

LayerCall(id, x, w) == LayerCalled(id, x, Layer_call(layers[id], x, w))

\* One step of the external optimizer: it assigns the four weight vectors
ApplyGradients(id, w) ==
    /\ layers[id].cls = "SingleQubitOperationLayer"
    /\ layers[id].built
    /\ w # [alphas |-> layers[id].alphas, betas |-> layers[id].betas,
            thetas |-> layers[id].thetas, phis |-> layers[id].phis]
    /\ layers' = [layers EXCEPT ![id].alphas = w.alphas, ![id].betas = w.betas,
                                ![id].thetas = w.thetas, ![id].phis = w.phis]
    /\ last' = [op |-> "apply_gradients", layer |-> id]
    /\ UNCHANGED <<mode, qpga, seq_model, pf>>

NextLayer ==
    \/ \E id \in DOMAIN layers :
         \E x \in GoodRows(layers[id].num_qubits) \cup BadRows(layers[id].num_qubits),
            w \in DrawnWeights(layers[id]) : LayerCall(id, x, w)
    \/ \E id \in DOMAIN layers :
         \E w \in WeightChoices(layers[id].num_qubits) : ApplyGradients(id, w)

SpecLayer == InitLayer /\ [][NextLayer]_vars

SingleQubitCallDone ==
    /\ last.op = "layer_call"
    /\ last.raised = "none"
    /\ layers[last.layer].cls = "SingleQubitOperationLayer"

\* C2: the three phase-diagonal matrices a forward pass of a single-qubit
\* layer multiplies by are the ones derived from the layer's phase
\* parameters as they are at that forward pass.
FreshPhaseMatrices ==
    SingleQubitCallDone =>
        LET self == layers[last.layer]
        IN  /\ last.operators[1] =
                   phase_shifts_to_tensor_product_space(self.alphas, self.betas)
            /\ last.operators[3] =
                   phase_shifts_to_tensor_product_space(self.thetas, zeros_like(self.thetas))
            /\ last.operators[5] =
                   phase_shifts_to_tensor_product_space(self.phis, zeros_like(self.phis))

MismatchAlwaysFails ==
    (last.op = "layer_call" /\ Len(last.x) # Pow2(layers[last.layer].num_qubits)) =>
        /\ last.out = None
        /\ last.raised = IF layers[last.layer].built
                         THEN "InvalidArgumentError" ELSE "AssertionError"

MismatchWitness ==
    /\ last.op = "layer_call"
    /\ layers[last.layer].cls = "CPhaseLayer"
    /\ layers[last.layer].built
    /\ layers[1].built
    /\ Len(last.x) = Pow2(layers[last.layer].num_qubits) + 1
    /\ last.raised = "InvalidArgumentError"

-----------------------------------------------------------------------------
(* The specification of the block lists: num_qubits and the gate variant   *)
(* are drawn in Init; the action builds the block list of one parity, as   *)
(* the layers i = 0 and i = 1 of QPGA.__init__ do.                         *)

InitBlocks ==
    /\ mode = "eager"
    /\ qpga = None
    /\ layers = <<>>
    /\ seq_model = None
    /\ last = [op |-> "none"]
    /\ \E n \in 1..MaxBlockQubits, std \in BOOLEAN :
           pf = [fn |-> "cphase_ops", num_qubits |-> n, use_standard_cphase |-> std,
                 built |-> {}, ops |-> <<None, None>>]

BuildBlocks(i) ==
    /\ pf.fn = "cphase_ops"
    /\ i \notin pf.built
    /\ pf' = [pf EXCEPT !.built = @ \cup {i},
                        !.ops[i + 1] = CPhaseOps(pf.num_qubits, i % 2, pf.use_standard_cphase)]
    /\ UNCHANGED <<mode, qpga, layers, seq_model, last>>

NextBlocks == \E i \in {0, 1} : BuildBlocks(i)

SpecBlocks == InitBlocks /\ [][NextBlocks]_vars

IsGate(b) == b \in {"CPHASE", "CPHASE_MOD"}
BlockWidth(b) == IF b = "IDENTITY" THEN 1 ELSE 2

RECURSIVE WidthSum(_, _)
WidthSum(ops, m) == IF m = 0 THEN 0 ELSE WidthSum(ops, m - 1) + BlockWidth(ops[m])

\* The qubits (from 0) the m-th block acts on
BlockQubits(ops, m) == WidthSum(ops, m - 1) .. (WidthSum(ops, m) - 1)

\* The pairs of qubits that carry a controlled-phase gate
GatePairs(ops) == {BlockQubits(ops, m) : m \in {b \in 1..Len(ops) : IsGate(ops[b])}}

\* The pairs (1,2), (3,4), ... that fit in n qubits
OddPairs(n) == {k \in 1..(n - 2) : k % 2 = 1}

\* C4: parity 0 gives floor(n/2) gates, then one identity exactly when n is
\* odd; parity 1 gives one identity, the gates of the pairs (1,2), (3,4), ...,
\* then one identity exactly when a qubit remains unpaired.
BlockListShape ==
    pf.fn = "cphase_ops" =>
        LET n == pf.num_qubits
            gate == IF pf.use_standard_cphase THEN "CPHASE" ELSE "CPHASE_MOD"
            ng == Cardinality(OddPairs(n))
        IN  /\ 0 \in pf.built =>
                LET ops == pf.ops[1]
                IN  /\ Len(ops) = (n \div 2) + (n % 2)
                    /\ \A m \in 1..(n \div 2) : ops[m] = gate
                    /\ (n % 2 = 1) => ops[Len(ops)] = "IDENTITY"
            /\ 1 \in pf.built =>
                LET ops == pf.ops[2]
                    rest == n - 1 - 2 * ng
                IN  /\ ops[1] = "IDENTITY"
                    /\ \A m \in 2..(ng + 1) : ops[m] = gate
                    /\ rest \in {0, 1}
                    /\ Len(ops) = 1 + ng + rest
                    /\ (rest = 1) => ops[Len(ops)] = "IDENTITY"
            /\ (n = 2 /\ 0 \in pf.built) => pf.ops[1] = <<gate>>
            /\ (n = 3 /\ 0 \in pf.built) => pf.ops[1] = <<gate, "IDENTITY">>
            /\ (n = 3 /\ 1 \in pf.built) => pf.ops[2] = <<"IDENTITY", gate>>

BlockListWitness ==
    /\ pf.fn = "cphase_ops" /\ pf.built = {0, 1}
    /\ pf.num_qubits = 4 /\ pf.use_standard_cphase
    /\ pf.ops = << <<"CPHASE", "CPHASE">>, <<"IDENTITY", "CPHASE", "IDENTITY">> >>

\* C10: in each parity the blocks cover every qubit exactly once, and every
\* nearest-neighbour pair (k, k+1) carries a gate in exactly one parity.
BrickWallCover ==
    pf.fn = "cphase_ops" =>
        LET n == pf.num_qubits
        IN  /\ \A i \in pf.built :
                 LET ops == pf.ops[i + 1]
                 IN  /\ WidthSum(ops, Len(ops)) = n
                     /\ \A q \in 0..(n - 1) :
                          Cardinality({m \in 1..Len(ops) : q \in BlockQubits(ops, m)}) = 1
            /\ pf.built = {0, 1} =>
                 \A k \in 0..(n - 2) :
                     ({k, k + 1} \in GatePairs(pf.ops[1])) # ({k, k + 1} \in GatePairs(pf.ops[2]))

BrickWallWitness ==
    /\ pf.fn = "cphase_ops" /\ pf.built = {0, 1}
    /\ pf.num_qubits = 5
    /\ GatePairs(pf.ops[1]) = {{0, 1}, {2, 3}}
    /\ GatePairs(pf.ops[2]) = {{1, 2}, {3, 4}}

-----------------------------------------------------------------------------
(* The specification of the circuit: QPGA.__init__ on any configuration,   *)
(* then forward passes, as_sequential and forward passes of the model it   *)
(* returns.                                                                *)

RealMixedRow(len) == << Tabulate(LAMBDA j : j, len), Tabulate(LAMBDA j : 1 - j, len) >>

\* An input in the encoding the circuit expects, of the right length
GoodInputs(self) ==
    IF self.complex_inputs THEN {MixedRow(Pow2(self.num_qubits))}
    ELSE {RealMixedRow(Pow2(self.num_qubits))}

\* An input one entry longer than 2^num_qubits
BadInputs(self) ==
    IF self.complex_inputs THEN {MixedRow(Pow2(self.num_qubits) + 1)}
    ELSE {RealMixedRow(Pow2(self.num_qubits) + 1)}

\* What the initializer may draw for the layers of a heap
\* Two samples of it: neighbouring single-qubit layers draw different weights
WeightDraws(heap) ==
    LET drawing == {id \in DOMAIN heap : DrawnWeights(heap[id]) # {None}}
        n == heap[1].num_qubits
        w0 == [alphas |-> zeros_like(Repeat(0, n)), betas |-> Tabulate(LAMBDA k : k % 4, n),
               thetas |-> zeros_like(Repeat(0, n)), phis |-> Tabulate(LAMBDA k : k % 4, n)]
        w1 == [alphas |-> Tabulate(LAMBDA k : k % 4, n), betas |-> zeros_like(Repeat(0, n)),
               thetas |-> Tabulate(LAMBDA k : k % 4, n), phis |-> zeros_like(Repeat(0, n))]
    IN  {[id \in drawing |-> IF ((id \div 2) + s) % 2 = 0 THEN w0 ELSE w1] : s \in {0, 1}}

InitCircuit ==
    /\ mode \in {"eager", "graph"}
    /\ qpga = None
    /\ layers = <<>>
    /\ seq_model = None
    /\ last = [op |-> "none"]
    /\ pf = None

Constructed(made) ==
    /\ qpga' = made.self
    /\ layers' = made.heap
    /\ last' = [op |-> "init"]
    /\ UNCHANGED <<mode, seq_model, pf>>

Construct(num_qubits, depth, complex_inputs, complex_outputs, use_standard_cphase) ==
    /\ qpga = None
    /\ Constructed(QPGA_init(num_qubits, depth, complex_inputs, complex_outputs,
                             use_standard_cphase))

Forwarded(inputs, r) ==
    /\ layers' = r.heap
    /\ last' = [op |-> "call", inputs |-> inputs, raised |-> r.raised,
                out |-> r.out, trace |-> r.trace]
    /\ UNCHANGED <<mode, qpga, seq_model, pf>>

Forward(inputs, ws) ==
    /\ qpga # None
    /\ Forwarded(inputs, QPGA_call(qpga, layers, inputs, ws))

MadeSequential(r) ==
    /\ layers' = r.heap
    /\ seq_model' = r.model
    /\ last' = [op |-> "as_sequential", raised |-> r.raised]
    /\ UNCHANGED <<mode, qpga, pf>>

AsSequential(ws) ==
    /\ qpga # None
    /\ seq_model = None
    /\ MadeSequential(QPGA_as_sequential(qpga, layers, ws))

SequentialForward(inputs) ==
    /\ seq_model # None
    /\ last' = [op |-> "sequential_call", inputs |-> inputs]
               @@ Sequential_call(seq_model, layers, inputs, Len(seq_model.stages))
    /\ UNCHANGED <<mode, qpga, layers, seq_model, pf>>

NextCircuit ==
    \/ \E num_qubits \in (-1)..MaxQubits, depth \in (-1)..MaxDepth,
          complex_inputs \in BOOLEAN, complex_outputs \in BOOLEAN,
          use_standard_cphase \in BOOLEAN :
         Construct(num_qubits, depth, complex_inputs, complex_outputs, use_standard_cphase)
    \/ /\ qpga # None
       /\ \E inputs \in GoodInputs(qpga) \cup BadInputs(qpga), ws \in WeightDraws(layers) :
            Forward(inputs, ws)
    \/ /\ qpga # None
       /\ \E ws \in WeightDraws(layers) : AsSequential(ws)
    \/ /\ qpga # None
       /\ \E inputs \in GoodInputs(qpga) : SequentialForward(inputs)

SpecCircuit == InitCircuit /\ [][NextCircuit]_vars

ValidConfiguration == qpga.num_qubits >= 1 /\ qpga.depth >= 0

\* C1: a circuit of num_qubits >= 1 and depth >= 0 has exactly 2*depth+1
\* layers: one single-qubit layer, then depth pairs of an entangling layer
\* of parity i mod 2 (i = 0 .. depth-1) and a single-qubit layer; depth 0
\* gives one single-qubit layer and no entangling layer.
CircuitLayout ==
    (qpga # None /\ ValidConfiguration) =>
        /\ Len(layers) = 2 * qpga.depth + 1
        /\ qpga.input_layer = 1
        /\ layers[1].cls = "SingleQubitOperationLayer"
        /\ Len(qpga.cphase_layers) = qpga.depth
        /\ Len(qpga.single_qubit_layers) = qpga.depth
        /\ \A i \in 0..(qpga.depth - 1) :
             /\ qpga.cphase_layers[i + 1] = 2 * i + 2
             /\ layers[2 * i + 2].cls = "CPhaseLayer"
             /\ layers[2 * i + 2].parity = i % 2
             /\ qpga.single_qubit_layers[i + 1] = 2 * i + 3
             /\ layers[2 * i + 3].cls = "SingleQubitOperationLayer"
        /\ \A id \in DOMAIN layers : layers[id].num_qubits = qpga.num_qubits
        /\ qpga.depth = 0 => \A id \in DOMAIN layers : layers[id].cls # "CPhaseLayer"

CircuitLayoutWitness ==
    /\ qpga # None
    /\ qpga.num_qubits = 2 /\ qpga.depth = 2
    /\ Len(layers) = 5
    /\ layers[2].parity = 0 /\ layers[4].parity = 1

\* C5: no circuit object with depth < 0 or num_qubits <= 0 is produced.
RejectsBadConfiguration ==
    qpga # None => (qpga.depth >= 0 /\ qpga.num_qubits > 0)

\* The forward maps of the layers 1 .. k in the order they were made
RECURSIVE InConstructionOrder(_, _, _)
InConstructionOrder(heap, x, k) ==
    IF k = 0 THEN x
    ELSE LET y == InConstructionOrder(heap, x, k - 1)
         IN  IF y = None THEN None ELSE Layer_forward(heap[k], y).out

IsPaired(x, len) == Len(x) = 2 /\ Len(x[1]) = len /\ Len(x[2]) = len

\* C3: a forward pass applies the layers in construction order, each once,
\* converts the input to complex before the first layer exactly when
\* complex_inputs is false, and converts the result back to the paired real
\* encoding after the last layer exactly when complex_outputs is false.
ForwardInOrder ==
    (qpga # None /\ last.op = "call" /\ last.raised = "none") =>
        LET n == Len(layers)
            d == Pow2(qpga.num_qubits)
            first == IF qpga.complex_inputs THEN 0 ELSE 1
            z == IF qpga.complex_inputs THEN last.inputs
                 ELSE Tabulate(LAMBDA j : <<last.inputs[1][j], last.inputs[2][j]>>, d)
            y == InConstructionOrder(layers, z, n)
        IN  /\ Len(last.trace) = first + n + (IF qpga.complex_outputs THEN 0 ELSE 1)
            /\ (~qpga.complex_inputs) <=> (last.trace[1].step = "k_to_tf_complex")
            /\ \A k \in 1..n : last.trace[first + k] = Step("layer", k)
            /\ (~qpga.complex_outputs) <=>
                   (last.trace[Len(last.trace)].step = "tf_to_k_complex")
            /\ IF qpga.complex_outputs
               THEN last.out = y
               ELSE /\ IsPaired(last.out, d)
                    /\ \A j \in 1..d : <<last.out[1][j], last.out[2][j]>> = y[j]

ForwardInOrderWitness ==
    /\ qpga # None /\ last.op = "call" /\ last.raised = "none"
    /\ qpga.depth = 2 /\ qpga.num_qubits = 2
    /\ ~qpga.complex_inputs /\ qpga.complex_outputs
    /\ Len(last.trace) = 6

LayersOf(stages) == SelectSeq(stages, LAMBDA st : st.layer # 0)

\* C8: the model of as_sequential holds the layer objects of the circuit in
\* the order of a forward pass, with the input conversion exactly when
\* complex_inputs is false and the output conversion exactly when
\* complex_outputs is false, and maps every input to what the forward pass
\* maps it to.
SequentialSameAsForward ==
    (qpga # None /\ seq_model # None) =>
        LET stages == seq_model.stages
            n == Len(stages)
            first == IF qpga.complex_inputs THEN 1 ELSE 2
            none == <<>>
        IN  /\ stages[1].op = "Input"
            /\ (~qpga.complex_inputs) <=>
                   (stages[2].op = "Lambda" /\ stages[2].fn = "k_to_tf_complex")
            /\ (~qpga.complex_outputs) <=>
                   (stages[n].op = "Lambda" /\ stages[n].fn = "tf_to_k_complex")
            /\ n = first + Len(layers) + (IF qpga.complex_outputs THEN 0 ELSE 1)
            /\ \A x \in GoodInputs(qpga) :
                 LET f == QPGA_call(qpga, layers, x, none)
                     g == Sequential_call(seq_model, layers, x, n)
                 IN  /\ f.raised = "none" /\ g.raised = "none"
                     /\ f.out = g.out
                     /\ Len(LayersOf(stages)) = Len(LayersOf(f.trace))
                     /\ \A k \in 1..Len(LayersOf(stages)) :
                          LayersOf(stages)[k].layer = LayersOf(f.trace)[k].layer

SequentialWitness ==
    /\ qpga # None /\ seq_model # None
    /\ qpga.depth = 2 /\ qpga.num_qubits = 2
    /\ ~qpga.complex_inputs /\ ~qpga.complex_outputs
    /\ last.op = "sequential_call" /\ last.raised = "none"
    /\ Len(seq_model.stages) = 8

=============================================================================
